---- MODULE Spec2Model ----
(***************************************************************************)
(* A model of the two programs of the repository:                          *)
(*   - client.py: MCPClient.transform_json (schema translator) and the     *)
(*     connection lifecycle connect_and_list_tools / cleanup;              *)
(*   - rag_server.py: the rag_ML tool.                                     *)
(* Three specifications share the module: Spec (connection lifecycle),     *)
(* SpecTransform (transform_json) and SpecRag (rag_ML).                    *)
(***************************************************************************)
EXTENDS Integers, Sequences, FiniteSets, TLC

VARIABLES
    session,        \* self.session: 0 is None, otherwise the id of the ClientSession
    stdio_read,     \* self.stdio_read: 0 is None, otherwise the id of the transport
    stdio_write,    \* self.stdio_write: 0 is None, otherwise the id of the transport
    exit_stack,     \* self.exit_stack: the contexts entered, oldest first
    running,        \* ids of the stdio transports (subprocesses) that are open
    sessionsOpen,   \* ids of the ClientSession contexts that are open
    launches,       \* number of subprocesses launched so far
    serverTools,    \* the tool list the server answers list_tools with right now
    lastCall,       \* what the most recent call on the instance did
    json2_data,     \* transform_json: the argument
    result,         \* transform_json: the list built so far
    idx,            \* transform_json: position of the for loop in json2_data
    returned,       \* transform_json: whether the function has returned result
    disk,           \* rag_ML: content of each artifact on disk
    call            \* rag_ML: the frame of each invocation in flight

clientVars == <<session, stdio_read, stdio_write, exit_stack, running,
                sessionsOpen, launches, serverTools, lastCall>>

transformVars == <<json2_data, result, idx, returned>>

ragVars == <<disk, call>>

vars == <<clientVars, transformVars, ragVars>>

\* Bound on the number of subprocess launches explored.
MaxLaunches == 2

----------------------------------------------------------------------------
(* Paths are sequences of characters, so that endswith is computed.        *)

PyPath    == <<"s", ".", "p", "y">>
JsPath    == <<"i", ".", "j", "s">>
ExePath   == <<"s", ".", "e", "x", "e">>
NoDotPath == <<"s", "p", "y">>
ShortPath == <<"y">>

Paths == {PyPath, JsPath, ExePath, NoDotPath, ShortPath}

\* str.endswith; endswithAny is the variant that accepts every path.
endswithAny(s, suffix) == TRUE

endswith(s, suffix) ==
    /\ Len(s) >= Len(suffix)
    /\ SubSeq(s, Len(s) - Len(suffix) + 1, Len(s)) = suffix

is_python(path) == endswith(path, <<".", "p", "y">>)
is_js(path)     == endswith(path, <<".", "j", "s">>)

command(path) == IF is_python(path) THEN "python" ELSE "node"

----------------------------------------------------------------------------
(* The tool lists a server may answer with, and the marker of a call that   *)
(* returned nothing because it raised.                                      *)

ToolLists == {<<>>, <<"rag_ML">>, <<"rag_ML", "other">>}
NoResult  == <<"$raised">>

\* The points of connect_and_list_tools where the environment may fail a step.
Faults == {"none", "launch_notfound", "launch", "session", "initialize", "list_tools"}

\* The kinds of context on the exit stack; a subset of them is what raises on exit.
Kinds == {"transport", "session"}

\* The instance and the resources it holds, as one record.
Self == [session |-> session, stdio_read |-> stdio_read, stdio_write |-> stdio_write,
         exit_stack |-> exit_stack, running |-> running,
         sessionsOpen |-> sessionsOpen, launches |-> launches]

Entries(stack) == {stack[k] : k \in 1..Len(stack)}

IdsOf(stack, kind) == {e[2] : e \in {x \in Entries(stack) : x[1] = kind}}

\* AsyncExitStack.aclose(): every entered context is exited, newest first; an
\* exception raised by an exit is carried through the remaining exits and raised
\* at the end. acloseRaisesOnEmpty is the variant that also raises when nothing
\* was entered.
acloseRaisesOnEmpty(stack, failing) ==
    \/ stack = <<>>
    \/ \E k \in 1..Len(stack) : stack[k][1] \in failing

acloseRaises(stack, failing) ==
    \E k \in 1..Len(stack) : stack[k][1] \in failing

aclose(c) ==
    [c EXCEPT !.exit_stack   = <<>>,
              !.running      = @ \ IdsOf(c.exit_stack, "transport"),
              !.sessionsOpen = @ \ IdsOf(c.exit_stack, "session")]

\* MCPClient.cleanup: the three fields are reset only after aclose() returned.
cleanup(c, failing) ==
    LET raised == acloseRaises(c.exit_stack, failing)
        closed == aclose(c)
    IN  [raised |-> raised,
         closed |-> Entries(c.exit_stack),
         c      |-> IF raised
                    THEN closed
                    ELSE [closed EXCEPT !.session = 0, !.stdio_read = 0,
                                        !.stdio_write = 0]]

----------------------------------------------------------------------------
(* connect_and_list_tools, as a function of the instance, the path and the  *)
(* environment's choices: the step that fails (if any) and the kinds of     *)
(* context whose exit raises.                                               *)

\* response.tools of a list_tools request answered now. ListedToolsCached is
\* the variant that answers with the list an earlier call returned.
ListedToolsCached == IF lastCall.result # NoResult THEN lastCall.result ELSE serverTools

ListedTools == serverTools

\* The branch taken when self.session is set: one list_tools request on the
\* existing session; a failure is re-raised as it is.
list_existing(c, fault) ==
    LET ok == c.session \in c.sessionsOpen /\ fault # "list_tools"
    IN  [c          |-> c,
         outcome    |-> IF ok THEN "returned" ELSE "raised",
         error      |-> IF ok THEN "none" ELSE "ListToolsError",
         cause      |-> IF ok THEN "none" ELSE "ListToolsError",
         result     |-> IF ok THEN ListedTools ELSE NoResult,
         response   |-> IF ok THEN serverTools ELSE NoResult,
         launched   |-> 0, created |-> 0, inits |-> 0,
         listReqs   |-> <<c.session>>,
         cleanupRan |-> FALSE,
         closed     |-> {}]

\* The path is neither .py nor .js: ValueError, raised outside the try block.
invalid_path(c) ==
    [c          |-> c,
     outcome    |-> "raised",
     error      |-> "ValueError",
     cause      |-> "ValueError",
     result     |-> NoResult,
     response   |-> NoResult,
     launched   |-> 0, created |-> 0, inits |-> 0,
     listReqs   |-> <<>>,
     cleanupRan |-> FALSE,
     closed     |-> {}]

\* connect_failed_no_cleanup is the variant of the except clauses below that
\* re-raises without calling cleanup().
connect_failed_no_cleanup(c, err, launched, created, inits, listReqs, failing) ==
    [c          |-> c,
     outcome    |-> "raised",
     error      |-> err,
     cause      |-> err,
     result     |-> NoResult,
     response   |-> NoResult,
     launched   |-> launched, created |-> created, inits |-> inits,
     listReqs   |-> listReqs,
     cleanupRan |-> FALSE,
     closed     |-> {}]

\* The except clauses of the try block: cleanup(), then a bare raise. When
\* cleanup() itself raises, its exception is the one that leaves the method.
connect_failed(c, err, launched, created, inits, listReqs, failing) ==
    LET r == cleanup(c, failing)
    IN  [c          |-> r.c,
         outcome    |-> "raised",
         error      |-> IF r.raised THEN "CloseError" ELSE err,
         cause      |-> err,
         result     |-> NoResult,
         response   |-> NoResult,
         launched   |-> launched, created |-> created, inits |-> inits,
         listReqs   |-> listReqs,
         cleanupRan |-> TRUE,
         closed     |-> r.closed]

\* The try block: launch the subprocess, create the session, initialize,
\* list the tools.
connect_new(c, fault, failing) ==
    LET t  == c.launches + 1
        c1 == [c EXCEPT !.launches    = t,
                        !.running     = @ \cup {t},
                        !.exit_stack  = Append(@, <<"transport", t>>),
                        !.stdio_read  = t,
                        !.stdio_write = t]
        c2 == [c1 EXCEPT !.session      = t,
                         !.sessionsOpen = @ \cup {t},
                         !.exit_stack   = Append(@, <<"session", t>>)]
    IN  CASE fault = "launch_notfound" ->
                connect_failed(c, "FileNotFoundError", 0, 0, 0, <<>>, failing)
          [] fault = "launch" ->
                connect_failed(c, "LaunchError", 0, 0, 0, <<>>, failing)
          [] fault = "session" ->
                connect_failed(c1, "SessionError", 1, 0, 0, <<>>, failing)
          [] fault = "initialize" ->
                connect_failed(c2, "InitializeError", 1, 1, 1, <<>>, failing)
          [] fault = "list_tools" ->
                connect_failed(c2, "ListToolsError", 1, 1, 1, <<t>>, failing)
          [] OTHER ->
                [c          |-> c2,
                 outcome    |-> "returned",
                 error      |-> "none",
                 cause      |-> "none",
                 result     |-> ListedTools,
                 response   |-> serverTools,
                 launched   |-> 1, created |-> 1, inits |-> 1,
                 listReqs   |-> <<t>>,
                 cleanupRan |-> FALSE,
                 closed     |-> {}]

connect_and_list_tools(c, path, fault, failing) ==
    IF c.session # 0
    THEN list_existing(c, fault)
    ELSE IF ~(is_python(path) \/ is_js(path))
         THEN invalid_path(c)
         ELSE connect_new(c, fault, failing)

----------------------------------------------------------------------------
(* The connection lifecycle as a state machine: calls on one instance do   *)
(* not overlap, so each call is one step.                                   *)

Install(c) ==
    /\ session'      = c.session
    /\ stdio_read'   = c.stdio_read
    /\ stdio_write'  = c.stdio_write
    /\ exit_stack'   = c.exit_stack
    /\ running'      = c.running
    /\ sessionsOpen' = c.sessionsOpen
    /\ launches'     = c.launches

ClientFresh ==
    /\ session = 0
    /\ stdio_read = 0
    /\ stdio_write = 0
    /\ exit_stack = <<>>
    /\ running = {}
    /\ sessionsOpen = {}
    /\ launches = 0
    /\ lastCall = [op |-> "none", path |-> <<>>, command |-> "none", pre |-> Self,
                   outcome |-> "none", error |-> "none", cause |-> "none",
                   result |-> NoResult, response |-> NoResult,
                   launched |-> 0, created |-> 0, inits |-> 0, listReqs |-> <<>>,
                   cleanupRan |-> FALSE, closed |-> {},
                   prevOp |-> "none", prevOutcome |-> "none",
                   prevResult |-> NoResult]

CallConnect ==
    \E path \in Paths, fault \in Faults, failing \in SUBSET Kinds :
        LET r == connect_and_list_tools(Self, path, fault, failing)
        IN  /\ r.c.launches <= MaxLaunches
            /\ Install(r.c)
            /\ lastCall' = [op |-> "connect", path |-> path,
                            command |-> IF r.launched > 0 THEN command(path) ELSE "none",
                            pre |-> Self,
                            outcome |-> r.outcome, error |-> r.error, cause |-> r.cause,
                            result |-> r.result, response |-> r.response,
                            launched |-> r.launched, created |-> r.created,
                            inits |-> r.inits, listReqs |-> r.listReqs,
                            cleanupRan |-> r.cleanupRan, closed |-> r.closed,
                            prevOp |-> lastCall.op, prevOutcome |-> lastCall.outcome,
                            prevResult |-> lastCall.result]
            /\ UNCHANGED serverTools

CallCleanup ==
    \E failing \in SUBSET Kinds :
        LET r == cleanup(Self, failing)
        IN  /\ Install(r.c)
            /\ lastCall' = [op |-> "cleanup", path |-> <<>>, command |-> "none",
                            pre |-> Self,
                            outcome |-> IF r.raised THEN "raised" ELSE "returned",
                            error |-> IF r.raised THEN "CloseError" ELSE "none",
                            cause |-> IF r.raised THEN "CloseError" ELSE "none",
                            result |-> NoResult, response |-> NoResult,
                            launched |-> 0, created |-> 0, inits |-> 0,
                            listReqs |-> <<>>,
                            cleanupRan |-> TRUE, closed |-> r.closed,
                            prevOp |-> lastCall.op, prevOutcome |-> lastCall.outcome,
                            prevResult |-> lastCall.result]
            /\ UNCHANGED serverTools

\* The server process changes the tools it offers.
ServerUpdatesTools ==
    /\ serverTools' \in ToolLists \ {serverTools}
    /\ UNCHANGED <<session, stdio_read, stdio_write, exit_stack, running,
                   sessionsOpen, launches, lastCall>>

----------------------------------------------------------------------------
(* transform_json.  A JSON value is tagged with what isinstance(v, dict)    *)
(* answers: Dict(f) is a mapping f from keys to JSON values, Atom(a) is any *)
(* other value (a string, a number, a list).                                *)

\* Bound on the length of the list given to transform_json.
MaxItems == 2

Dict(f) == [kind |-> "dict", val |-> f]
Atom(a) == [kind |-> "atom", val |-> a]

EmptyDict == Dict(<<>>)

isdict(v) == v.kind = "dict"

\* k in v, for a mapping v
has(v, k) == k \in DOMAIN v.val

\* v.get(k, default), for a mapping v
get(v, k, default) == IF k \in DOMAIN v.val THEN v.val[k] ELSE default

Restrict(f, S) == [k \in S |-> f[k]]

\* The input_schema values explored: every subset of type/properties/required,
\* a schema with a further field, and a schema that is not a mapping.
FullSchema ==
    ("type" :> Atom("array")) @@
    ("properties" :> Dict("q" :> Dict("type" :> Atom("string")))) @@
    ("required" :> Atom("[q]")) @@
    ("title" :> Atom("Search"))

SchemaValues ==
    {Dict(Restrict(FullSchema, S)) : S \in SUBSET {"type", "properties", "required"}}
        \cup {Dict(FullSchema), Dict(Restrict(FullSchema, {"title"})), Atom("schema")}

\* The function values explored: with and without name and description, with
\* every schema above, with a further field, and one that is not a mapping.
FullFunc(name, schema) ==
    ("name" :> Atom(name)) @@
    ("description" :> Atom("find docs")) @@
    ("input_schema" :> schema) @@
    ("strict" :> Atom("true"))

FuncValues ==
    {Dict(Restrict(FullFunc("search", s), {"name", "description", "input_schema"})) :
        s \in SchemaValues}
        \cup {Dict(Restrict(FullFunc("search", EmptyDict), S)) :
                 S \in SUBSET {"name", "description", "strict"}}
        \cup {Dict(FullFunc("lookup", Dict(FullSchema))), Atom("name description")}

\* The items explored: with and without the type and function keys, with a
\* further key, and one that is not a mapping.
Items ==
    {Dict(("type" :> Atom("function")) @@ ("function" :> f)) : f \in FuncValues}
        \cup {Dict("function" :> f) :
                 f \in {Dict(FullFunc("lookup", Dict(FullSchema))),
                        Dict(Restrict(FullFunc("search", EmptyDict), {"name"}))}}
        \cup {Dict(("type" :> Atom("tool")) @@ ("id" :> Atom("7")) @@
                   ("function" :> Dict(FullFunc("fetch", Dict(Restrict(FullSchema, {"type"})))))),
              Dict("type" :> Atom("function")),
              EmptyDict,
              Atom("function")}

Inputs == UNION {[1..n -> Items] : n \in 0..MaxItems}

\* First test of the loop body: the item is a mapping with "type" and "function".
\* item_ok_without_type is the variant that does not ask for "type".
item_ok_without_type(item) ==
    /\ isdict(item)
    /\ has(item, "function")

item_ok(item) ==
    /\ isdict(item)
    /\ has(item, "type")
    /\ has(item, "function")

\* Second test: the function is a mapping with "name" and "description".
func_ok(old_func) ==
    /\ isdict(old_func)
    /\ has(old_func, "name")
    /\ has(old_func, "description")

\* new_func["parameters"]: empty unless input_schema is a mapping.
\* new_parameters_required_defaulted is the variant that always sets required.
new_parameters_required_defaulted(old_func) ==
    IF has(old_func, "input_schema") /\ isdict(old_func.val["input_schema"])
    THEN LET old_schema == old_func.val["input_schema"]
         IN  Dict(("type" :> get(old_schema, "type", Atom("object"))) @@
                  ("properties" :> get(old_schema, "properties", EmptyDict)) @@
                  ("required" :> get(old_schema, "required", Atom("[]"))))
    ELSE EmptyDict

new_parameters(old_func) ==
    IF has(old_func, "input_schema") /\ isdict(old_func.val["input_schema"])
    THEN LET old_schema == old_func.val["input_schema"]
             copied == ("type" :> get(old_schema, "type", Atom("object"))) @@
                       ("properties" :> get(old_schema, "properties", EmptyDict))
         IN  IF has(old_schema, "required")
             THEN Dict(copied @@ ("required" :> old_schema.val["required"]))
             ELSE Dict(copied)
    ELSE EmptyDict

new_func(old_func) ==
    Dict(("name" :> old_func.val["name"]) @@
         ("description" :> old_func.val["description"]) @@
         ("parameters" :> new_parameters(old_func)))

\* One pass of the loop body: what it appends to result.
appended(item) ==
    IF item_ok(item) /\ func_ok(item.val["function"])
    THEN <<Dict(("type" :> Atom("function")) @@
                ("function" :> new_func(item.val["function"])))>>
    ELSE <<>>

TransformIdle ==
    /\ json2_data = <<>>
    /\ result = <<>>
    /\ idx = 1
    /\ returned = FALSE

InitTransform ==
    /\ json2_data \in Inputs
    /\ result = <<>>
    /\ idx = 1
    /\ returned = FALSE

LoopIteration ==
    /\ ~returned
    /\ idx <= Len(json2_data)
    /\ result' = result \o appended(json2_data[idx])
    /\ idx' = idx + 1
    /\ UNCHANGED <<json2_data, returned>>

ReturnResult ==
    /\ ~returned
    /\ idx > Len(json2_data)
    /\ returned' = TRUE
    /\ UNCHANGED <<json2_data, result, idx>>

----------------------------------------------------------------------------
(* rag_ML.  Each invocation is a frame that runs the five statements of the *)
(* function one await or call at a time; invocations interleave, and the    *)
(* indexing pipeline may rewrite or remove the artifacts meanwhile.         *)

Invocations == {"a", "b"}
\* The query each invocation is called with.
QueryOf     == [i \in Invocations |-> IF i = "a" THEN "q1" ELSE "q2"]
Contents    == {"v1", "v2"}
Missing     == "missing"
Unset       == "unset"

Artifacts == {"settings", "entities", "communities", "community_reports"}

StepOrder == <<"load_config", "read_entities", "read_communities",
               "read_community_reports", "global_search">>

\* community_level passed to global_search
CommunityLevel == 2

NoFrame ==
    [pc |-> "idle", query |-> Unset,
     loaded |-> [a \in Artifacts |-> Unset],
     onDisk |-> [a \in Artifacts |-> Unset],
     steps |-> <<>>, searches |-> 0, args |-> Unset, ret |-> Unset,
     error |-> "none"]

\* load_config(Path(...)) and pd.read_parquet(...): what is on disk now.
\* read_cached is the variant that reuses what another invocation holds.
read_cached(i, a) ==
    IF \E j \in Invocations \ {i} : call[j].loaded[a] # Unset
    THEN call[CHOOSE j \in Invocations \ {i} : call[j].loaded[a] # Unset].loaded[a]
    ELSE disk[a]

read(i, a) == disk[a]

\* The arguments of the global_search call of frame f.
search_args(f) ==
    [config |-> f.loaded["settings"],
     entities |-> f.loaded["entities"],
     communities |-> f.loaded["communities"],
     community_reports |-> f.loaded["community_reports"],
     community_level |-> CommunityLevel,
     dynamic_community_selection |-> FALSE,
     response_type |-> "Multiple Paragraphs",
     query |-> f.query]

\* api.global_search: the pair (response, context) it answers with.
global_search(args) == <<[response_to |-> args], [context_of |-> args]>>

\* return response: the first component of the pair.
returned_value(pair) == pair[1]

RagIdle ==
    /\ disk = [a \in Artifacts |-> Missing]
    /\ call = [i \in Invocations |-> NoFrame]

InitRag ==
    /\ disk \in [Artifacts -> {Missing} \cup Contents]
    /\ call = [i \in Invocations |-> NoFrame]

\* The protocol layer calls the tool.
Invoke(i) ==
    /\ call[i].pc \in {"idle", "returned", "raised"}
    /\ call' = [call EXCEPT ![i] = [NoFrame EXCEPT !.pc = "load_config",
                                                   !.query = QueryOf[i]]]
    /\ UNCHANGED disk

\* An exception leaves the function: the frame is gone, nothing is returned.
Raised(f, step) ==
    [NoFrame EXCEPT !.pc = "raised", !.query = f.query,
                    !.steps = Append(f.steps, step),
                    !.searches = f.searches,
                    !.error = step]

\* One of the four loading statements.
Load(i, step, a, next) ==
    /\ call[i].pc = step
    /\ \E ok \in BOOLEAN :
          /\ ok => disk[a] # Missing
          /\ call' = [call EXCEPT ![i] =
                IF ok
                THEN [@ EXCEPT !.pc = next,
                               !.loaded[a] = read(i, a),
                               !.onDisk[a] = disk[a],
                               !.steps = Append(@, step)]
                ELSE Raised(@, step)]
    /\ UNCHANGED disk

LoadConfig(i) == Load(i, "load_config", "settings", "read_entities")

ReadEntities(i) == Load(i, "read_entities", "entities", "read_communities")

ReadCommunities(i) ==
    Load(i, "read_communities", "communities", "read_community_reports")

ReadCommunityReports(i) ==
    Load(i, "read_community_reports", "community_reports", "global_search")

\* response, context = await api.global_search(...); return response
GlobalSearch(i) ==
    /\ call[i].pc = "global_search"
    /\ \E ok \in BOOLEAN :
          call' = [call EXCEPT ![i] =
                IF ok
                THEN [@ EXCEPT !.pc = "returned",
                               !.steps = Append(@, "global_search"),
                               !.searches = @ + 1,
                               !.args = search_args(call[i]),
                               !.ret = returned_value(global_search(search_args(call[i])))]
                ELSE [Raised(@, "global_search") EXCEPT !.searches = @ + 1]]
    /\ UNCHANGED disk

\* The indexing pipeline rewrites or removes an artifact.
DiskChanges ==
    /\ \E a \in Artifacts, v \in {Missing} \cup Contents :
          /\ v # disk[a]
          /\ disk' = [disk EXCEPT ![a] = v]
    /\ UNCHANGED call

----------------------------------------------------------------------------
(* The three specifications.                                                *)

Init ==
    /\ ClientFresh
    /\ serverTools \in ToolLists
    /\ TransformIdle
    /\ RagIdle

Next ==
    \/ CallConnect /\ UNCHANGED <<transformVars, ragVars>>
    \/ CallCleanup /\ UNCHANGED <<transformVars, ragVars>>
    \/ ServerUpdatesTools /\ UNCHANGED <<transformVars, ragVars>>

Spec == Init /\ [][Next]_vars

InitT ==
    /\ ClientFresh
    /\ serverTools = <<>>
    /\ InitTransform
    /\ RagIdle

NextT ==
    \/ LoopIteration /\ UNCHANGED <<clientVars, ragVars>>
    \/ ReturnResult /\ UNCHANGED <<clientVars, ragVars>>

SpecTransform == InitT /\ [][NextT]_vars

InitR ==
    /\ ClientFresh
    /\ serverTools = <<>>
    /\ TransformIdle
    /\ InitRag

NextR ==
    \/ \E i \in Invocations : Invoke(i) /\ UNCHANGED <<clientVars, transformVars>>
    \/ \E i \in Invocations : LoadConfig(i) /\ UNCHANGED <<clientVars, transformVars>>
    \/ \E i \in Invocations : ReadEntities(i) /\ UNCHANGED <<clientVars, transformVars>>
    \/ \E i \in Invocations : ReadCommunities(i) /\ UNCHANGED <<clientVars, transformVars>>
    \/ \E i \in Invocations :
          ReadCommunityReports(i) /\ UNCHANGED <<clientVars, transformVars>>
    \/ \E i \in Invocations : GlobalSearch(i) /\ UNCHANGED <<clientVars, transformVars>>
    \/ DiskChanges /\ UNCHANGED <<clientVars, transformVars>>

SpecRag == InitR /\ [][NextR]_vars


----------------------------------------------------------------------------
(* Properties of the connection lifecycle, checked under Spec.              *)

Supported   == {PyPath, JsPath}
Unsupported == {ExePath, NoDotPath, ShortPath}

Disconnected(c) == c.session = 0 /\ c.stdio_read = 0 /\ c.stdio_write = 0

FieldsAsBefore ==
    /\ session = lastCall.pre.session
    /\ stdio_read = lastCall.pre.stdio_read
    /\ stdio_write = lastCall.pre.stdio_write

ResourcesAsBefore ==
    /\ exit_stack = lastCall.pre.exit_stack
    /\ running = lastCall.pre.running
    /\ sessionsOpen = lastCall.pre.sessionsOpen

NothingOpen == exit_stack = <<>> /\ running = {} /\ sessionsOpen = {}

\* C1: a connect on a Disconnected instance with a supported suffix either
\* returns the tool list and leaves the instance Connected, or raises the
\* original failure after cleanup() with the instance Disconnected and nothing
\* left open; no step is attempted twice.
C1_ConnectTwoOutcomes ==
    (lastCall.op = "connect" /\ Disconnected(lastCall.pre)
                             /\ lastCall.path \in Supported) =>
        /\ lastCall.launched <= 1 /\ lastCall.created <= 1
        /\ lastCall.inits <= 1 /\ Len(lastCall.listReqs) <= 1
        /\ \/ /\ lastCall.outcome = "returned"
              /\ lastCall.result = lastCall.response
              /\ session # 0 /\ stdio_read # 0 /\ stdio_write # 0
              /\ session \in sessionsOpen /\ stdio_read \in running
           \/ /\ lastCall.outcome = "raised"
              /\ lastCall.cleanupRan
              /\ lastCall.error = lastCall.cause
              /\ Disconnected(Self)
              /\ NothingOpen

\* C2 as stated: every failure of connect_and_list_tools with a connection
\* resource held is raised after cleanup; on an already-Connected instance a
\* failed tool-list request leaves the transport closed and the instance
\* Disconnected.
C2_Original ==
    (/\ lastCall.op = "connect"
     /\ lastCall.outcome = "raised"
     /\ (lastCall.pre.session # 0 \/ lastCall.launched > 0)) =>
        /\ lastCall.cleanupRan
        /\ lastCall.pre.session # 0 =>
              Disconnected(Self) /\ lastCall.pre.session \notin running

\* C2 as amended: a failure raised from a new connection attempt (session unset
\* on entry, supported suffix) reaches the caller only after cleanup() has been
\* called, with every entered context exited and no transport open; on an
\* already-Connected instance a failed tool-list request is re-raised without
\* cleanup, the transport still open and session and streams still set.
C2_Amended ==
    (lastCall.op = "connect" /\ lastCall.outcome = "raised") =>
        /\ (lastCall.pre.session = 0 /\ lastCall.path \in Supported) =>
              /\ lastCall.cleanupRan
              /\ NothingOpen
              /\ lastCall.launched = 1 =>
                    <<"transport", lastCall.pre.launches + 1>> \in lastCall.closed
              /\ lastCall.created = 1 =>
                    <<"session", lastCall.pre.launches + 1>> \in lastCall.closed
        /\ lastCall.pre.session # 0 =>
              /\ ~lastCall.cleanupRan
              /\ lastCall.closed = {}
              /\ FieldsAsBefore
              /\ ResourcesAsBefore

C2_Witness ==
    /\ lastCall.op = "connect"
    /\ lastCall.outcome = "raised"
    /\ lastCall.error = "ListToolsError"
    /\ lastCall.pre.session # 0
    /\ lastCall.pre.session \in lastCall.pre.running
    /\ lastCall.pre.session \in lastCall.pre.sessionsOpen
    /\ session \in running

\* C3 as stated: in every state a connect with a suffix other than .py or .js
\* raises ValueError, launches nothing and leaves the three fields unchanged.
C3_Original ==
    (lastCall.op = "connect" /\ lastCall.path \in Unsupported) =>
        /\ lastCall.outcome = "raised"
        /\ lastCall.error = "ValueError"
        /\ lastCall.launched = 0
        /\ FieldsAsBefore

\* C3 as amended: a connect with a suffix other than .py or .js launches no
\* subprocess and leaves the three fields unchanged in every state; it raises
\* ValueError when session is unset, and when session is set the suffix is not
\* looked at: the call is a list_tools request on the existing session.
C3_Amended ==
    (lastCall.op = "connect" /\ lastCall.path \in Unsupported) =>
        /\ lastCall.launched = 0
        /\ lastCall.created = 0
        /\ FieldsAsBefore
        /\ ResourcesAsBefore
        /\ launches = lastCall.pre.launches
        /\ lastCall.pre.session = 0 =>
              /\ lastCall.outcome = "raised"
              /\ lastCall.error = "ValueError"
              /\ lastCall.listReqs = <<>>
              /\ ~lastCall.cleanupRan
        /\ lastCall.pre.session # 0 =>
              /\ lastCall.error # "ValueError"
              /\ lastCall.listReqs = <<lastCall.pre.session>>

C3_Witness ==
    /\ lastCall.op = "connect"
    /\ lastCall.path = ExePath
    /\ lastCall.pre.session = 0
    /\ lastCall.error = "ValueError"
    /\ lastCall.pre.launches > 0

\* C4: a connect on an already-Connected instance launches no subprocess and
\* creates no session; it issues one list_tools request on the existing session
\* and returns the tools of that response, and session and streams are the same
\* objects afterwards.
C4_ConnectedRelists ==
    (lastCall.op = "connect" /\ lastCall.pre.session # 0) =>
        /\ lastCall.launched = 0
        /\ lastCall.created = 0
        /\ lastCall.inits = 0
        /\ launches = lastCall.pre.launches
        /\ lastCall.listReqs = <<lastCall.pre.session>>
        /\ FieldsAsBefore
        /\ ResourcesAsBefore
        /\ lastCall.outcome = "returned" => lastCall.result = lastCall.response
        /\ lastCall.outcome = "raised" => lastCall.result = NoResult

C4_Witness ==
    /\ lastCall.op = "connect"
    /\ lastCall.pre.session # 0
    /\ lastCall.outcome = "returned"
    /\ lastCall.prevOp = "connect"
    /\ lastCall.prevOutcome = "returned"
    /\ lastCall.prevResult # lastCall.result

\* C5: cleanup() on a never-connected instance, or on one that is already
\* Disconnected (in particular right after a cleanup() that returned), returns
\* without error, closes nothing and leaves session, stdio_read and stdio_write
\* unset, the state being the one before the call.
C5_CleanupIdempotent ==
    (/\ lastCall.op = "cleanup"
     /\ \/ lastCall.pre.launches = 0
        \/ Disconnected(lastCall.pre)
        \/ lastCall.prevOp = "cleanup" /\ lastCall.prevOutcome = "returned") =>
        /\ lastCall.outcome = "returned"
        /\ lastCall.error = "none"
        /\ lastCall.closed = {}
        /\ Disconnected(Self)
        /\ NothingOpen
        /\ FieldsAsBefore
        /\ ResourcesAsBefore

C5_Witness ==
    /\ lastCall.op = "cleanup"
    /\ lastCall.prevOp = "cleanup"
    /\ lastCall.prevOutcome = "returned"
    /\ lastCall.pre.launches > 0
    /\ lastCall.outcome = "returned"

\* C6: whenever cleanup() has run, from any state and also when closing the
\* transport or the session raises, session, stdio_read and stdio_write are
\* unset and every acquired resource has been released.
C6_CleanupResetsAlways ==
    lastCall.cleanupRan => Disconnected(Self) /\ NothingOpen

\* C7: between calls at most one subprocess session is open, the session
\* field is set only while its transport is open, and no subprocess runs while
\* the fields say Disconnected.
C7_OneSession ==
    /\ Cardinality(running) <= 1
    /\ Cardinality(sessionsOpen) <= 1
    /\ session # 0 => session \in running
    /\ Disconnected(Self) => running = {}

----------------------------------------------------------------------------
(* Properties of transform_json, checked under SpecTransform.               *)

IsMapping(v) == v.kind = "dict"

\* An item the claim C8 calls valid: a mapping with a "function" key whose
\* value is a mapping with "name" and "description".
ClaimedValid(item) ==
    /\ IsMapping(item)
    /\ "function" \in DOMAIN item.val
    /\ IsMapping(item.val["function"])
    /\ {"name", "description"} \subseteq DOMAIN item.val["function"].val

\* As above, and the item has a "type" key too.
TypedValid(item) == ClaimedValid(item) /\ "type" \in DOMAIN item.val

\* The positions looked at so far, and the position in result that item i of
\* the set V of translated positions must have when order is kept.
LookedAt == 1..(idx - 1)

Rank(V, i) == Cardinality({j \in V : j <= i})

\* result holds exactly one item per position of V, in input order, each
\* {type: "function", function: {name, description, parameters}} with the name
\* and description of its source.
Translates(V) ==
        /\ Len(result) = Cardinality(V)
        /\ Len(result) <= idx - 1
        /\ \A i \in V :
              LET out == result[Rank(V, i)]
                  src == json2_data[i].val["function"]
              IN  /\ IsMapping(out)
                  /\ DOMAIN out.val = {"type", "function"}
                  /\ out.val["type"] = Atom("function")
                  /\ IsMapping(out.val["function"])
                  /\ DOMAIN out.val["function"].val = {"name", "description", "parameters"}
                  /\ out.val["function"].val["name"] = src.val["name"]
                  /\ out.val["function"].val["description"] = src.val["description"]

\* C8 as stated: the output holds an item if and only if it is a mapping with a
\* "function" key whose value is a mapping with "name" and "description"; one
\* output per such item, in input order.
C8_Original ==
    returned => Translates({i \in LookedAt : ClaimedValid(json2_data[i])})

\* C8 as amended: the output holds an item if and only if it is a mapping with
\* both a "type" and a "function" key, the function value being a mapping with
\* "name" and "description"; one output per such item, carrying its name and
\* description, in input order; every other item is skipped.
C8_Amended == Translates({i \in LookedAt : TypedValid(json2_data[i])})

C8_Witness ==
    /\ returned
    /\ Len(json2_data) = 2
    /\ ClaimedValid(json2_data[1]) /\ ~TypedValid(json2_data[1])
    /\ TypedValid(json2_data[2])
    /\ Len(result) = 1

\* C9: for every translated item, parameters is the empty mapping when
\* input_schema is absent or not a mapping; otherwise it has exactly type (the
\* schema's, or "object"), properties (the schema's, or the empty mapping) and,
\* if and only if the schema has it, required with the schema's value.
C9_Parameters ==
    LET V == {i \in LookedAt : TypedValid(json2_data[i])}
    IN  /\ Len(result) = Cardinality(V)
        /\ \A i \in V :
              LET src    == json2_data[i].val["function"].val
                  params == result[Rank(V, i)].val["function"].val["parameters"]
              IN  IF "input_schema" \in DOMAIN src /\ IsMapping(src["input_schema"])
                  THEN LET schema == src["input_schema"].val
                       IN  /\ IsMapping(params)
                           /\ DOMAIN params.val =
                                 {"type", "properties"} \cup (DOMAIN schema \cap {"required"})
                           /\ params.val["type"] =
                                 IF "type" \in DOMAIN schema
                                 THEN schema["type"] ELSE Atom("object")
                           /\ params.val["properties"] =
                                 IF "properties" \in DOMAIN schema
                                 THEN schema["properties"] ELSE Dict(<<>>)
                           /\ "required" \in DOMAIN schema =>
                                 params.val["required"] = schema["required"]
                  ELSE params = Dict(<<>>)

C9_Witness ==
    /\ returned
    /\ Len(result) = 2
    /\ DOMAIN result[1].val["function"].val["parameters"].val = {"type", "properties"}
    /\ result[1].val["function"].val["parameters"].val["type"] = Atom("object")
    /\ "title" \in DOMAIN json2_data[2].val["function"].val["input_schema"].val
    /\ DOMAIN result[2].val["function"].val["parameters"].val =
          {"type", "properties", "required"}

----------------------------------------------------------------------------
(* Properties of rag_ML, checked under SpecRag.                             *)

IsPrefix(s, t) == Len(s) <= Len(t) /\ s = SubSeq(t, 1, Len(s))

\* C10: an invocation runs load config, read entities, read communities, read
\* community reports and one global_search, in that order; it returns only the
\* response of that search, computed from its own query and from what it read
\* itself; a failing step ends it with nothing returned and no later step.
C10_RagInvocation ==
    \A i \in Invocations :
        LET f == call[i]
        IN  /\ IsPrefix(f.steps, StepOrder)
            /\ f.searches <= 1
            /\ f.searches = 1 <=>
                  (f.steps # <<>> /\ f.steps[Len(f.steps)] = "global_search")
            /\ \A a \in Artifacts : f.loaded[a] = f.onDisk[a]
            /\ f.pc = "returned" =>
                  /\ f.steps = StepOrder
                  /\ f.error = "none"
                  /\ \A a \in Artifacts : f.onDisk[a] \in Contents
                  /\ f.ret = [response_to |->
                                [config |-> f.onDisk["settings"],
                                 entities |-> f.onDisk["entities"],
                                 communities |-> f.onDisk["communities"],
                                 community_reports |-> f.onDisk["community_reports"],
                                 community_level |-> 2,
                                 dynamic_community_selection |-> FALSE,
                                 response_type |-> "Multiple Paragraphs",
                                 query |-> QueryOf[i]]]
            /\ f.pc = "raised" =>
                  /\ f.steps # <<>>
                  /\ f.error = f.steps[Len(f.steps)]
            /\ f.pc # "returned" => f.ret = Unset

C10_Witness ==
    /\ call["a"].pc = "returned"
    /\ call["b"].pc = "returned"
    /\ call["a"].args.entities # call["b"].args.entities
    /\ call["a"].args.config # call["b"].args.config
    /\ call["a"].ret # call["b"].ret

====
